---- MODULE Spec2Model ----
(***************************************************************************)
(* Model of pkg/sif/create.go: creation of a SIF container file and the    *)
(* AddObject / DeleteObject mutations of an open container (FileImage).    *)
(*                                                                         *)
(* The FileImage is the record fimg = [Header, DescrArr, Fp].  Fp is the   *)
(* open file: its cursor (pos), its bytes (bytes, run-length encoded), and *)
(* the decoded content of the two metadata regions (hdr: the record last   *)
(* written at offset 0, tab: the record last written at each slot offset   *)
(* of the descriptor table).                                               *)
(*                                                                         *)
(* Every function of create.go is an operator from a FileImage to a        *)
(* FileImage (plus err), and every public operation is one action.  Fp.log *)
(* records the writes of the call that ran last, in order: the offset and  *)
(* length of each, and the metadata regions as they are in the file once   *)
(* it is done: the states in which the process could stop between two      *)
(* writes.                                                                 *)
(***************************************************************************)
EXTENDS Integers, Sequences, FiniteSets, TLC

\* ------------------------------------------------------------- constants

\* Capacity of the descriptor table (48 in the format; scaled down).
DescrNumEntries == 2
\* Latest value of the clock read by time.Now().Unix(); the clock counts
\* from the reading CreateContainer makes of it.
MaxTime == 1
\* DeleteObject is not offered once Dfree exceeds Dtotal by this much.
MaxOverFree == 1

\* Width in bits of the offsets (int64 and uint64 in the code: 64; scaled
\* down).
OffsetBits == 20
\* nextAligned is exercised with the alignments 2^0 .. 2^MaxAlignLog and, for
\* each, with the offsets at most Near away from 0, from the first multiples
\* of the alignment and from the last ones an offset can hold.
MaxAlignLog == 12
Near == 3

\* os.Getpagesize()
PageSize == 4096
\* var zero [4096]byte in zeroData
ZeroChunk == 4096
\* Layout constants of the format (declared next to the Header type).
DescrStartOffset == 4096
DataStartOffset == 32768
\* binary.Size of one Descriptor and of the Header.
DescrSize == 585
HdrSize == 128
\* Deletion flags.
DelZero == 1
DelCompact == 2

Slots == 0 .. (DescrNumEntries - 1)
SlotOffset(i) == DescrStartOffset + i * DescrSize
SlotOffsets == { SlotOffset(i) : i \in Slots }

\* Content of a byte: 0, the content of the object bound to descriptor id
\* (id >= 1), or MetaByte for a byte of an encoded header or descriptor.
MetaByte == -1

\* ------------------------------------------------------------ file bytes
\* The bytes of a file: a sequence of runs [n, b] (n > 0 bytes of content
\* b), adjacent runs differing in b.

RECURSIVE RunLen(_)
RunLen(f) == IF f = <<>> THEN 0 ELSE Head(f).n + RunLen(Tail(f))

\* Concatenation, joining the runs that meet when their content is equal.
Cat(f, g) ==
    IF f = <<>> THEN g
    ELSE IF g = <<>> THEN f
    ELSE IF f[Len(f)].b = g[1].b
         THEN SubSeq(f, 1, Len(f) - 1)
              \o <<[n |-> f[Len(f)].n + g[1].n, b |-> g[1].b]>>
              \o Tail(g)
         ELSE f \o g

\* The first k bytes of f, and f without its first k bytes.
RECURSIVE Take(_, _)
Take(f, k) ==
    IF k <= 0 \/ f = <<>> THEN <<>>
    ELSE IF Head(f).n <= k THEN <<Head(f)>> \o Take(Tail(f), k - Head(f).n)
    ELSE <<[n |-> k, b |-> Head(f).b]>>

RECURSIVE Drop(_, _)
Drop(f, k) ==
    IF f = <<>> THEN <<>>
    ELSE IF k <= 0 THEN f
    ELSE IF Head(f).n <= k THEN Drop(Tail(f), k - Head(f).n)
    ELSE <<[n |-> Head(f).n - k, b |-> Head(f).b]>> \o Tail(f)

\* The content of the byte at offset o, MetaByte - 1 past the end of the file.
RECURSIVE ByteAt(_, _)
ByteAt(f, o) ==
    IF f = <<>> \/ o < 0 THEN MetaByte - 1
    ELSE IF o < Head(f).n THEN Head(f).b
    ELSE ByteAt(Tail(f), o - Head(f).n)

\* write(2) of n bytes of content b at offset off: a write of no byte
\* changes nothing; a write past the end leaves a hole, which reads as 0.
WriteBytes(f, off, n, b) ==
    IF n <= 0 THEN f
    ELSE LET padded == IF off > RunLen(f)
                       THEN Cat(f, <<[n |-> off - RunLen(f), b |-> 0]>>)
                       ELSE f
         IN  Cat(Cat(Take(padded, off), <<[n |-> n, b |-> b]>>),
                 Drop(padded, off + n))

\* ------------------------------------------------------------ data model

emptyDesc ==
    [Used |-> FALSE, ID |-> 0, Fileoff |-> 0, Filelen |-> 0, Storelen |-> 0]

\* The Header of a file that holds no header yet (all bytes zero).
ZeroHeader ==
    [Ctime |-> 0, Mtime |-> 0, Dfree |-> 0, Dtotal |-> 0, Descroff |-> 0,
     Descrlen |-> 0, Dataoff |-> 0, Datalen |-> 0]

\* A file with no byte in it.
EmptyFile ==
    [pos |-> 0, bytes |-> <<>>, hdr |-> ZeroHeader,
     tab |-> [o \in SlotOffsets |-> emptyDesc], log |-> <<>>]

\* A FileImage with nothing in it (var fimg FileImage, no file opened).
ZeroImage ==
    [Header |-> ZeroHeader, DescrArr |-> [i \in Slots |-> emptyDesc],
     Fp |-> EmptyFile]

\* A DescriptorInput: the declared Size, the buffer Data (its length, Nil
\* when absent), the stream Fp (the number of bytes it delivers) and
\* whether the copy into the file ends with an I/O error.
Nil == -1
Stream(size, n) == [Size |-> size, Data |-> Nil, Fp |-> n, Fail |-> FALSE]
Buffer(size, n) == [Size |-> size, Data |-> n, Fp |-> 0, Fail |-> FALSE]
\* ----------------------------------------------------- offset arithmetic

\* x & ^m on unsigned integers.
RECURSIVE AndNot(_, _)
AndNot(x, m) ==
    IF x = 0 THEN 0
    ELSE (IF x % 2 = 1 /\ m % 2 = 0 THEN 1 ELSE 0)
         + 2 * AndNot(x \div 2, m \div 2)

\* The conversions between the signed and the unsigned integers of the
\* width of an offset: uint64(x) and int64(x).
Word == 2 ^ OffsetBits
MaxOffset == (Word \div 2) - 1
ToUint(x) == x % Word
ToInt(x) == IF x > MaxOffset THEN x - Word ELSE x

\* nextAligned rounding down.
nextAligned_RoundDown(offset, align) ==
    LET align64 == ToUint(align)
        offset64 == ToUint(offset)
    IN  ToInt(IF offset64 % align64 # 0
              THEN AndNot(offset64, ToUint(align64 - 1))
              ELSE offset64)

nextAligned(offset, align) ==
    LET align64 == ToUint(align)
        offset64 == ToUint(offset)
    IN  ToInt(IF offset64 % align64 # 0
              THEN ToUint(AndNot(offset64, ToUint(align64 - 1)) + align64)
              ELSE offset64)

\* Moves the cursor to the next aligned offset.
setFileOffNA(fimg, alignment) ==
    [fimg EXCEPT !.Fp.pos = nextAligned(fimg.Fp.pos, alignment)]

\* ------------------------------------------------------------ allocation

\* fillDescriptor, the data placed at the cursor as it is.
fillDescriptor_NoAlign(fimg, index, input) ==
    LET curoff == fimg.Fp.pos
    IN  [fimg EXCEPT !.DescrArr[index] =
            [Used |-> TRUE, ID |-> index + 1, Fileoff |-> curoff,
             Filelen |-> input.Size, Storelen |-> input.Size]]

\* Fills descriptor index from input and moves the cursor to the aligned
\* offset of its data.  (Datatype, Groupid, Link, the timestamps, the owner,
\* Name and Extra of a descriptor are copied from the input and the
\* environment and read by no function of the file; they are left out.)
fillDescriptor(fimg, index, input) ==
    LET curoff == fimg.Fp.pos
        moved == setFileOffNA(fimg, PageSize)
        fileoff == moved.Fp.pos
    IN  [moved EXCEPT !.DescrArr[index] =
            [Used |-> TRUE, ID |-> index + 1, Fileoff |-> fileoff,
             Filelen |-> input.Size,
             Storelen |-> fileoff + input.Size - curoff]]

\* Writes n bytes of content b at the cursor and advances it.
fpWrite(fimg, n, b) ==
    [fimg EXCEPT !.Fp.bytes = WriteBytes(@, fimg.Fp.pos, n, b),
                 !.Fp.pos = @ + n,
                 !.Fp.log = Append(@, [off |-> fimg.Fp.pos, n |-> n,
                                        hdr |-> fimg.Fp.hdr, tab |-> fimg.Fp.tab])]

\* Writes n bytes of an encoded record at the cursor; the metadata regions
\* then decode as hdr and tab.
fpWriteMeta(fimg, n, hdr, tab) ==
    [fimg EXCEPT !.Fp.bytes = WriteBytes(@, fimg.Fp.pos, n, MetaByte),
                 !.Fp.pos = @ + n,
                 !.Fp.hdr = hdr,
                 !.Fp.tab = tab,
                 !.Fp.log = Append(@, [off |-> fimg.Fp.pos, n |-> n,
                                        hdr |-> hdr, tab |-> tab])]

\* Writes the data of the object: the whole buffer when there is one, else
\* the whole stream, whose length is then compared with input.Size.  The
\* bytes carry the id of the descriptor they are written for.
\* writeDataObject, the length of the copy not compared with input.Size.
writeDataObject_NoLengthCheck(fimg, input, id) ==
    IF input.Data # Nil
    THEN [fimg |-> fpWrite(fimg, input.Data, id), err |-> ""]
    ELSE [fimg |-> fpWrite(fimg, input.Fp, id),
          err |-> IF input.Fail THEN "IOError" ELSE ""]

writeDataObject(fimg, input, id) ==
    IF input.Data # Nil
    THEN [fimg |-> fpWrite(fimg, input.Data, id), err |-> ""]
    ELSE [fimg |-> fpWrite(fimg, input.Fp, id),
          err |-> IF input.Fail THEN "IOError"
                  ELSE IF input.Fp # input.Size THEN "ShortWrite"
                  ELSE ""]

\* The scan for a free entry, stopping at the last slot not used.
FirstFree_Highest(arr) ==
    IF \E i \in Slots : ~arr[i].Used
    THEN CHOOSE i \in Slots :
            ~arr[i].Used /\ \A j \in Slots : j > i => arr[j].Used
    ELSE DescrNumEntries - 1

\* The index at which "for idx, v = range DescrArr" stops: the first slot
\* not used, the last slot when every slot is used.
FirstFree(arr) ==
    IF \E i \in Slots : ~arr[i].Used
    THEN CHOOSE i \in Slots :
            ~arr[i].Used /\ \A j \in Slots : j < i => arr[j].Used
    ELSE DescrNumEntries - 1

\* createDescriptor, Datalen grown by the length of the payload alone.
createDescriptor_NoPadding(fimg, input) ==
    LET idx == FirstFree(fimg.DescrArr) IN
    IF fimg.Header.Dfree = 0
    THEN [fimg |-> fimg, err |-> "NoFreeSlot", idx |-> 0]
    ELSE IF idx = fimg.Header.Dtotal - 1 /\ fimg.DescrArr[idx].Used
    THEN [fimg |-> fimg, err |-> "TableDesync", idx |-> idx]
    ELSE LET filled == fillDescriptor(fimg, idx, input)
             wr == writeDataObject(filled, input, idx + 1)
         IN  IF wr.err # ""
             THEN [fimg |-> wr.fimg, err |-> wr.err, idx |-> idx]
             ELSE [fimg |-> [wr.fimg EXCEPT
                       !.Header.Dfree = @ - 1,
                       !.Header.Datalen = @ + wr.fimg.DescrArr[idx].Filelen],
                   err |-> "", idx |-> idx]

\* createDescriptor without the test of Dfree.
createDescriptor_NoCapacityCheck(fimg, input) ==
    LET idx == FirstFree(fimg.DescrArr) IN
    IF idx = fimg.Header.Dtotal - 1 /\ fimg.DescrArr[idx].Used
    THEN [fimg |-> fimg, err |-> "TableDesync", idx |-> idx]
    ELSE LET filled == fillDescriptor(fimg, idx, input)
             wr == writeDataObject(filled, input, idx + 1)
         IN  IF wr.err # ""
             THEN [fimg |-> wr.fimg, err |-> wr.err, idx |-> idx]
             ELSE [fimg |-> [wr.fimg EXCEPT
                       !.Header.Dfree = @ - 1,
                       !.Header.Datalen = @ + wr.fimg.DescrArr[idx].Storelen],
                   err |-> "", idx |-> idx]

createDescriptor(fimg, input) ==
    LET idx == FirstFree(fimg.DescrArr) IN
    IF fimg.Header.Dfree = 0
    THEN [fimg |-> fimg, err |-> "NoFreeSlot", idx |-> 0]
    ELSE IF idx = fimg.Header.Dtotal - 1 /\ fimg.DescrArr[idx].Used
    THEN [fimg |-> fimg, err |-> "TableDesync", idx |-> idx]
    ELSE LET filled == fillDescriptor(fimg, idx, input)
             wr == writeDataObject(filled, input, idx + 1)
         IN  IF wr.err # ""
             THEN [fimg |-> wr.fimg, err |-> wr.err, idx |-> idx]
             ELSE [fimg |-> [wr.fimg EXCEPT
                       !.Header.Dfree = @ - 1,
                       !.Header.Datalen = @ + wr.fimg.DescrArr[idx].Storelen],
                   err |-> "", idx |-> idx]

\* ----------------------------------------------------------- persistence

\* binary.Write of descriptor v at the cursor, inside the descriptor table.
writeRecord(fimg, v) ==
    fpWriteMeta(fimg, DescrSize, fimg.Fp.hdr,
                [fimg.Fp.tab EXCEPT ![fimg.Fp.pos] = v])

\* The loop of writeDescriptors from index i on.
RECURSIVE writeDescrLoop(_, _)
writeDescrLoop(fimg, i) ==
    IF i >= DescrNumEntries THEN fimg
    ELSE writeDescrLoop(writeRecord(fimg, fimg.DescrArr[i]), i + 1)

writeDescriptors(fimg) ==
    [writeDescrLoop([fimg EXCEPT !.Fp.pos = DescrStartOffset], 0)
        EXCEPT !.Header.Descrlen = DescrNumEntries * DescrSize]

writeHeader(fimg) ==
    fpWriteMeta([fimg EXCEPT !.Fp.pos = 0], HdrSize, fimg.Header, fimg.Fp.tab)

\* ---------------------------------------------------------------- create

\* The loop of CreateContainer over the Inputlist.
RECURSIVE createLoop(_, _)
createLoop(fimg, list) ==
    IF list = <<>> THEN [fimg |-> fimg, err |-> "", idx |-> 0]
    ELSE LET r == createDescriptor(fimg, Head(list)) IN
         IF r.err # "" \/ Len(list) = 1 THEN r
         ELSE createLoop(r.fimg, Tail(list))

\* The fresh header of CreateContainer (the clock reads 0 here), the file
\* created or truncated, the cursor at the start of the data section.
createOpen ==
    [Header |-> [ZeroHeader EXCEPT !.Dfree = DescrNumEntries,
                                   !.Dtotal = DescrNumEntries,
                                   !.Descroff = DescrStartOffset,
                                   !.Dataoff = DataStartOffset],
     DescrArr |-> [i \in Slots |-> emptyDesc],
     Fp |-> [EmptyFile EXCEPT !.pos = DataStartOffset]]

\* CreateContainer, the file opened before the Inputlist is looked at.
CreateContainer_OpenFirst(old, list) ==
    IF Len(list) = 0
    THEN [fimg |-> createOpen, err |-> "EmptyInputSet", idx |-> 0]
    ELSE LET r == createLoop(createOpen, list) IN
         IF r.err # "" THEN r
         ELSE [r EXCEPT !.fimg = writeHeader(writeDescriptors(r.fimg))]

\* CreateContainer on the path whose file and last FileImage are old.
CreateContainer(old, list) ==
    IF Len(list) = 0
    THEN [fimg |-> old, err |-> "EmptyInputSet", idx |-> 0]
    ELSE LET r == createLoop(createOpen, list) IN
         IF r.err # "" THEN r
         ELSE [r EXCEPT !.fimg = writeHeader(writeDescriptors(r.fimg))]

\* ------------------------------------------------------------------- add

\* AddObject, the header written before the descriptor table.
AddObject_HeaderFirst(fimg, input, t) ==
    LET at == [fimg EXCEPT
                 !.Fp.pos = fimg.Header.Dataoff + fimg.Header.Datalen]
        r == createDescriptor(at, input)
    IN  IF r.err # "" THEN r
        ELSE [r EXCEPT !.fimg =
                 writeDescriptors(writeHeader([r.fimg EXCEPT !.Header.Mtime = t]))]

AddObject(fimg, input, t) ==
    LET at == [fimg EXCEPT
                 !.Fp.pos = fimg.Header.Dataoff + fimg.Header.Datalen]
        r == createDescriptor(at, input)
    IN  IF r.err # "" THEN r
        ELSE [r EXCEPT !.fimg =
                 writeHeader([writeDescriptors(r.fimg) EXCEPT !.Header.Mtime = t])]

\* -------------------------------------------------------------- deletion

\* The loop of zeroData, n bytes left to write.
RECURSIVE zeroLoop(_, _, _)
zeroLoop(fimg, n, upbound) ==
    LET ub == IF n < ZeroChunk THEN n ELSE upbound
        wr == fpWrite(fimg, ub, 0)
    IN  IF n - ZeroChunk <= 0 THEN wr ELSE zeroLoop(wr, n - ZeroChunk, ub)

\* zeroData, every chunk written whole.
RECURSIVE zeroLoop_WholeChunks(_, _, _)
zeroLoop_WholeChunks(fimg, n, upbound) ==
    LET wr == fpWrite(fimg, upbound, 0)
    IN  IF n - ZeroChunk <= 0 THEN wr
        ELSE zeroLoop_WholeChunks(wr, n - ZeroChunk, upbound)

zeroData_WholeChunks(fimg, descr) ==
    zeroLoop_WholeChunks([fimg EXCEPT !.Fp.pos = descr.Fileoff],
                         descr.Filelen, ZeroChunk)

zeroData(fimg, descr) ==
    zeroLoop([fimg EXCEPT !.Fp.pos = descr.Fileoff], descr.Filelen, ZeroChunk)

resetDescriptor(fimg, index) ==
    writeRecord([fimg EXCEPT !.Fp.pos = fimg.Header.Descroff + index * DescrSize],
                emptyDesc)

\* The lookup of a descriptor by id: the used descriptor of that id in the
\* table of the FileImage, index -1 when there is none.
GetFromDescrID(fimg, id) ==
    IF \E i \in Slots : fimg.DescrArr[i].Used /\ fimg.DescrArr[i].ID = id
    THEN [index |-> CHOOSE i \in Slots :
                        fimg.DescrArr[i].Used /\ fimg.DescrArr[i].ID = id,
          err |-> ""]
    ELSE [index |-> -1, err |-> "UnknownID"]

\* DeleteObject, DelCompact handled as a deletion that zeroes nothing.
DeleteObject_CompactFrees(fimg, id, flags, t) ==
    LET found == GetFromDescrID(fimg, id)
        index == found.index
    IN  IF found.err # "" THEN [fimg |-> fimg, err |-> found.err, idx |-> -1]
        ELSE LET zeroed == IF flags = DelZero
                           THEN zeroData(fimg, fimg.DescrArr[index])
                           ELSE fimg
                 freed == [zeroed EXCEPT !.Header.Dfree = @ + 1,
                                         !.Header.Mtime = t]
             IN  [fimg |-> writeHeader(resetDescriptor(freed, index)),
                  err |-> "", idx |-> index]

\* DeleteObject, the data section shrunk by the Storelen of the descriptor.
DeleteObject_Shrinks(fimg, id, flags, t) ==
    LET found == GetFromDescrID(fimg, id)
        index == found.index
    IN  IF found.err # "" THEN [fimg |-> fimg, err |-> found.err, idx |-> -1]
        ELSE IF flags = DelCompact
        THEN [fimg |-> fimg, err |-> "NotImplemented", idx |-> index]
        ELSE LET zeroed == IF flags = DelZero
                           THEN zeroData(fimg, fimg.DescrArr[index])
                           ELSE fimg
                 freed == [zeroed EXCEPT
                             !.Header.Dfree = @ + 1,
                             !.Header.Mtime = t,
                             !.Header.Datalen =
                                 @ - fimg.DescrArr[index].Storelen]
             IN  [fimg |-> writeHeader(resetDescriptor(freed, index)),
                  err |-> "", idx |-> index]

DeleteObject(fimg, id, flags, t) ==
    LET found == GetFromDescrID(fimg, id)
        index == found.index
    IN  IF found.err # "" THEN [fimg |-> fimg, err |-> found.err, idx |-> -1]
        ELSE IF flags = DelCompact
        THEN [fimg |-> fimg, err |-> "NotImplemented", idx |-> index]
        ELSE LET zeroed == IF flags = DelZero
                           THEN zeroData(fimg, fimg.DescrArr[index])
                           ELSE fimg
                 freed == [zeroed EXCEPT !.Header.Dfree = @ + 1,
                                         !.Header.Mtime = t]
             IN  [fimg |-> writeHeader(resetDescriptor(freed, index)),
                  err |-> "", idx |-> index]

\* --------------------------------------------------------- state machine

VARIABLES
    fimg,   \* the FileImage: Header, DescrArr and the file Fp
    pc,     \* "start": no container is open; "idle": a container is open
    op,     \* the call that ran last: "create", "add", "delete", "nextAligned"
    arg,    \* its argument: the Inputlist, the input, [id, flags],
            \* [offset, align]
    idx,    \* the slot it allocated or resolved, -1 when it found none; the
            \* offset nextAligned returned
    ret,    \* its result: "ok" or its error
    clean,  \* no call on the container has failed after changing it
    env     \* what the caller draws its arguments from

vars == <<fimg, pc, op, arg, idx, ret, clean, env>>

Ids == 1 .. (DescrNumEntries + 1)
Flags == {DelZero, DelCompact, 3}

\* The callers: one that passes well-formed inputs and any flags, one that
\* passes well-formed inputs of every size class of zeroData, one that
\* passes buffers and one that passes streams whose length need not be the
\* declared Size.
Caller == [inputs |-> {Stream(10, 10), Stream(5000, 5000)}, flags |-> Flags]
SizesCaller ==
    [inputs |-> {Stream(0, 0), Stream(10, 10), Stream(4096, 4096),
                 Stream(5000, 5000)},
     flags |-> {DelZero}]
BufferCaller ==
    [inputs |-> {Buffer(10, 10), Buffer(10, 4100), Buffer(4096, 10)},
     flags |-> {DelZero}]
StreamCaller ==
    [inputs |-> {Stream(10, 10), Stream(10, 7), Stream(10, 12),
                 [Size |-> 10, Data |-> Nil, Fp |-> 4, Fail |-> TRUE]},
     flags |-> {DelZero}]

\* The Inputlists of CreateContainer: at most as many inputs as slots.
RECURSIVE ListsUpTo(_, _)
ListsUpTo(n, inputs) ==
    IF n = 0 THEN {<<>>}
    ELSE LET shorter == ListsUpTo(n - 1, inputs) IN
         shorter \cup { Append(l, i) : l \in {x \in shorter : Len(x) = n - 1},
                                        i \in inputs }
InputLists(inputs) == ListsUpTo(DescrNumEntries, inputs)

\* The readings of the clock a call can make: none before the last one.
Times(f) == f.Header.Mtime .. MaxTime

\* The FileImage as a call finds it: no write made yet.
Called(f) == [f EXCEPT !.Fp.log = <<>>]

\* The call has changed nothing of the FileImage but the cursor.
Untouched(f, g) ==
    /\ f.Header = g.Header
    /\ f.DescrArr = g.DescrArr
    /\ f.Fp.bytes = g.Fp.bytes
    /\ f.Fp.hdr = g.Fp.hdr
    /\ f.Fp.tab = g.Fp.tab

Result(err) == IF err = "" THEN "ok" ELSE err

InitWith(caller) ==
    /\ fimg = ZeroImage
    /\ pc = "start"
    /\ op = "none"
    /\ arg = <<>>
    /\ idx = 0
    /\ ret = ""
    /\ clean = TRUE
    /\ env = caller

Init == InitWith(Caller)
InitSizes == InitWith(SizesCaller)
InitBuffers == InitWith(BufferCaller)
InitStreams == InitWith(StreamCaller)

\* CreateContainer; when it succeeds, the container it made is opened.
Create(list) ==
    /\ pc = "start"
    /\ \E r \in {CreateContainer(Called(fimg), list)} :
        /\ fimg' = r.fimg
        /\ idx' = r.idx
        /\ ret' = Result(r.err)
        /\ pc' = IF r.err = "" THEN "idle" ELSE "start"
        /\ clean' = (r.err = "")
    /\ op' = "create"
    /\ arg' = list
    /\ UNCHANGED env

Add(input, t) ==
    /\ pc = "idle"
    /\ \E r \in {AddObject(Called(fimg), input, t)} :
        /\ fimg' = r.fimg
        /\ idx' = r.idx
        /\ ret' = Result(r.err)
        /\ clean' = (clean /\ (r.err = "" \/ Untouched(fimg, r.fimg)))
    /\ op' = "add"
    /\ arg' = input
    /\ UNCHANGED <<pc, env>>

Delete(id, flags, t) ==
    /\ pc = "idle"
    /\ fimg.Header.Dfree < fimg.Header.Dtotal + MaxOverFree
    /\ \E r \in {DeleteObject(Called(fimg), id, flags, t)} :
        /\ fimg' = r.fimg
        /\ idx' = r.idx
        /\ ret' = Result(r.err)
        /\ clean' = (clean /\ (r.err = "" \/ Untouched(fimg, r.fimg)))
    /\ op' = "delete"
    /\ arg' = [id |-> id, flags |-> flags]
    /\ UNCHANGED <<pc, env>>

Next ==
    \/ \E list \in InputLists(env.inputs) : Create(list)
    \/ \E input \in env.inputs, t \in Times(fimg) : Add(input, t)
    \/ \E id \in Ids, flags \in env.flags, t \in Times(fimg) : Delete(id, flags, t)

\* nextAligned on its own: a power of two as alignment, and an offset near
\* 0, near one of the first multiples of the alignment or near the largest
\* offset.
Aligns == { 2 ^ j : j \in 0 .. MaxAlignLog }
Offsets(a) ==
    { o \in (0 .. Near)
            \cup { q * a + d : q \in 1 .. 2, d \in (0 - Near) .. Near }
            \cup { MaxOffset + 1 - q * a + d : q \in 0 .. 2, d \in (0 - Near) .. Near } :
        o >= 0 /\ o <= MaxOffset }

InitAlign ==
    /\ fimg = ZeroImage
    /\ pc = "align"
    /\ op = "none"
    /\ arg \in UNION { { [offset |-> o, align |-> a] : o \in Offsets(a) } :
                        a \in Aligns }
    /\ idx = 0
    /\ ret = ""
    /\ clean = TRUE
    /\ env = Caller

Align ==
    /\ pc = "align"
    /\ op = "none"
    /\ idx' = nextAligned(arg.offset, arg.align)
    /\ op' = "nextAligned"
    /\ UNCHANGED <<fimg, pc, arg, ret, clean, env>>

NextAlign == Align

Spec == Init /\ [][Next]_vars
SpecAlign == InitAlign /\ [][NextAlign]_vars
SpecSizes == InitSizes /\ [][Next]_vars
SpecBuffers == InitBuffers /\ [][Next]_vars
SpecStreams == InitStreams /\ [][Next]_vars

\* ---------------------------------------------------------------- claims

\* The used-slot count a header states, and the numbers of slots marked
\* used in a descriptor table of the file and in the table of a FileImage.
HdrUsed(h) == h.Dtotal - h.Dfree
TabUsed(tab) == Cardinality({o \in SlotOffsets : tab[o].Used})
MemUsed(f) == Cardinality({i \in Slots : f.DescrArr[i].Used})

\* The sum of Storelen over the descriptors of table t at the places S.
RECURSIVE SumStorelen(_, _)
SumStorelen(S, t) ==
    IF S = {} THEN 0
    ELSE LET x == CHOOSE y \in S : TRUE
         IN  t[x].Storelen + SumStorelen(S \ {x}, t)

\* The sums of Storelen over the used descriptors of the table in the file
\* and of the table of the FileImage.
DiskStorelen(f) ==
    SumStorelen({o \in SlotOffsets : f.Fp.tab[o].Used}, f.Fp.tab)
MemStorelen(f) ==
    SumStorelen({i \in Slots : f.DescrArr[i].Used}, f.DescrArr)

FileSize(f) == RunLen(f.Fp.bytes)
Succeeded == pc = "idle" /\ ret = "ok"

\* C1, as stated: after every write of CreateContainer, AddObject and
\* DeleteObject, the header in the file states no more used slots than the
\* descriptor table in the file marks used.
C1_HeaderNeverAheadOfTable ==
    \A i \in 1 .. Len(fimg.Fp.log) :
        HdrUsed(fimg.Fp.log[i].hdr) <= TabUsed(fimg.Fp.log[i].tab)

\* C1, amended: that holds after every write of CreateContainer and of
\* AddObject; DeleteObject resets the record of the slot before it writes
\* the header, and between these two writes the header states one used slot
\* more than the table marks, never more than one.
C1_HeaderAheadOnlyInDelete ==
    \A i \in 1 .. Len(fimg.Fp.log) :
        LET e == fimg.Fp.log[i] IN
        /\ op \in {"create", "add"} => HdrUsed(e.hdr) <= TabUsed(e.tab)
        /\ op = "delete" => HdrUsed(e.hdr) <= TabUsed(e.tab) + 1

\* An AddObject has stopped being possible between the write of the table
\* and the write of the header: the table marks a slot the header does not
\* count yet.
C1_Witness ==
    /\ op = "add"
    /\ ret = "ok"
    /\ \E i \in 1 .. Len(fimg.Fp.log) :
          /\ HdrUsed(fimg.Fp.log[i].hdr) < TabUsed(fimg.Fp.log[i].tab)
          /\ HdrUsed(fimg.Fp.log[i].hdr) > 0

\* C2, as stated: after calls that all succeeded, Datalen of the header is
\* the sum of Storelen over the descriptors the container holds (those
\* marked used in its table in the file).
C2_DatalenIsSumOfUsed ==
    (Succeeded /\ clean) => fimg.Fp.hdr.Datalen = DiskStorelen(fimg)

\* C2, amended: after calls that all succeeded, Datalen is the sum of
\* Storelen over every descriptor allocated so far, those deleted since
\* included (the table of the FileImage keeps them all): DeleteObject leaves
\* Datalen as it is, so Datalen is never less than the sum over the
\* descriptors the container holds, and is that sum after CreateContainer.
C2_DatalenIsSumOfAllocated ==
    (Succeeded /\ clean) =>
        /\ fimg.Header.Datalen = MemStorelen(fimg)
        /\ fimg.Fp.hdr.Datalen = fimg.Header.Datalen
        /\ fimg.Fp.hdr.Datalen >= DiskStorelen(fimg)
        /\ op = "create" => fimg.Fp.hdr.Datalen = DiskStorelen(fimg)

\* A DeleteObject has succeeded on a container of two objects, the second
\* one stored after alignment padding.
C2_Witness ==
    /\ Succeeded /\ clean
    /\ op = "delete"
    /\ fimg.Fp.hdr.Datalen > DiskStorelen(fimg)
    /\ \E i \in Slots : fimg.DescrArr[i].Storelen > fimg.DescrArr[i].Filelen

\* The payload range of descriptor d lies in the file; the payload ranges
\* of descriptors d and e share no byte.
RangeInFile(f, d) ==
    d.Filelen > 0 => d.Fileoff + d.Filelen <= FileSize(f)
RangesDisjoint(d, e) ==
    \/ d.Filelen = 0
    \/ e.Filelen = 0
    \/ d.Fileoff + d.Filelen <= e.Fileoff
    \/ e.Fileoff + e.Filelen <= d.Fileoff

\* C3: after calls that all succeeded, every used descriptor has its
\* Fileoff at or after Dataoff and its payload range inside the file, and
\* no two used descriptors have payload ranges that overlap.
C3_PayloadRangesInFileAndDisjoint ==
    (Succeeded /\ clean) =>
        \A i \in Slots :
            LET d == fimg.DescrArr[i] IN
            d.Used =>
                /\ d.Fileoff >= fimg.Header.Dataoff
                /\ RangeInFile(fimg, d)
                /\ \A j \in Slots \ {i} :
                      fimg.DescrArr[j].Used => RangesDisjoint(d, fimg.DescrArr[j])

\* C4: after every call that succeeded, the used-slot count of the Header
\* of the FileImage is the number of slots marked used in its DescrArr, and
\* after CreateContainer it is the number of inputs.
C4_FreeCounterMatchesUsedFlags ==
    Succeeded =>
        /\ HdrUsed(fimg.Header) = MemUsed(fimg)
        /\ op = "create" => HdrUsed(fimg.Header) = Len(arg)

\* C5: Dfree never exceeds Dtotal, and Dtotal stays the capacity set by
\* CreateContainer.
C5_FreeCountWithinCapacity ==
    pc = "idle" =>
        /\ fimg.Header.Dfree <= fimg.Header.Dtotal
        /\ fimg.Header.Dtotal = DescrNumEntries

\* C6: once DeleteObject(id, DelZero) has succeeded, the lookup of id on the
\* same FileImage finds no descriptor.
C6_DeletedIdNotFound ==
    (Succeeded /\ op = "delete" /\ arg.flags = DelZero) =>
        GetFromDescrID(fimg, arg.id).err = "UnknownID"

\* The lowest slot the table in the file marks free.
LowestFree(tab) ==
    CHOOSE i \in Slots :
        /\ ~tab[SlotOffset(i)].Used
        /\ \A j \in Slots : j < i => tab[SlotOffset(j)].Used

\* C7: the AddObject that follows a successful DeleteObject succeeds and
\* binds its object to the lowest free slot.
C7_FreedSlotReused ==
    [][(Succeeded /\ op = "delete" /\ op' = "add") =>
            (ret' = "ok" /\ idx' = LowestFree(fimg.Fp.tab))]_vars

\* C8: after every call that succeeded, the header and the descriptor table
\* in the file are the Header and the DescrArr of the FileImage.
C8_FileEqualsFileImage ==
    Succeeded =>
        /\ fimg.Fp.hdr = fimg.Header
        /\ \A i \in Slots : fimg.Fp.tab[SlotOffset(i)] = fimg.DescrArr[i]

\* The writes of the last call into the data section, in order.
DataWrites(f) == SelectSeq(f.Fp.log, LAMBDA e : e.off >= DataStartOffset)

RECURSIVE SumN(_)
SumN(ws) == IF ws = <<>> THEN 0 ELSE Head(ws).n + SumN(Tail(ws))

\* C9: DeleteObject(id, DelZero) writes zeros over the payload range of the
\* descriptor and nowhere else: its data writes are the chunks of the loop
\* of zeroData, one after the other from Fileoff on, none longer than the
\* chunk, as many as the loop needs, Filelen bytes in all, and the range
\* then reads as zeros.
C9_ZeroFillExact ==
    (Succeeded /\ op = "delete" /\ arg.flags = DelZero) =>
        LET d == fimg.DescrArr[idx]
            ws == DataWrites(fimg)
        IN  /\ Len(ws) = IF d.Filelen = 0 THEN 1
                         ELSE (d.Filelen + ZeroChunk - 1) \div ZeroChunk
            /\ ws[1].off = d.Fileoff
            /\ \A i \in 1 .. Len(ws) :
                  /\ ws[i].n >= 0 /\ ws[i].n <= ZeroChunk
                  /\ i > 1 => ws[i].off = ws[i - 1].off + ws[i - 1].n
            /\ SumN(ws) = d.Filelen
            /\ d.Filelen > 0 =>
                  Take(Drop(fimg.Fp.bytes, d.Fileoff), d.Filelen)
                      = <<[n |-> d.Filelen, b |-> 0]>>

\* A 5000-byte object (a whole chunk and a part of one) has been zeroed,
\* and the object stored after it still has its bytes.
C9_Witness ==
    /\ Succeeded /\ op = "delete" /\ arg.flags = DelZero
    /\ fimg.DescrArr[idx].Filelen = 5000
    /\ Len(DataWrites(fimg)) = 2
    /\ \E j \in Slots :
          /\ fimg.DescrArr[j].Fileoff > fimg.DescrArr[idx].Fileoff
          /\ fimg.DescrArr[j].Filelen > 0
          /\ ByteAt(fimg.Fp.bytes, fimg.DescrArr[j].Fileoff) = j + 1

\* C10: DeleteObject with flags that are neither DelZero nor DelCompact
\* fails with InvalidMode and writes nothing.
C10_InvalidModeRejected ==
    (op = "delete" /\ arg.flags \notin {DelZero, DelCompact}
                   /\ ret # "UnknownID") =>
        /\ ret = "InvalidMode"
        /\ fimg.Fp.log = <<>>

\* The call has left the FileImage and the file as they were: nothing
\* written, Header, DescrArr and the content of the file unchanged.
NoChange(f, g) == Untouched(f, g) /\ g.Fp.log = <<>>

\* C11, as stated: DeleteObject(id, DelCompact) fails with NotImplemented,
\* whatever the id, and changes neither the file nor the Header nor the
\* DescrArr of the FileImage.
C11_CompactAlwaysNotImplemented ==
    [][(op' = "delete" /\ arg'.flags = DelCompact) =>
            (ret' = "NotImplemented" /\ NoChange(fimg, fimg'))]_vars

\* C11, amended: DeleteObject(id, DelCompact) resolves the id first: it fails
\* with UnknownID when the lookup finds no descriptor and with
\* NotImplemented when it finds one; in both cases it changes neither the
\* file nor the Header nor the DescrArr of the FileImage.
C11_CompactFailsWithoutChange ==
    [][(op' = "delete" /\ arg'.flags = DelCompact) =>
            /\ ret' = IF GetFromDescrID(fimg, arg'.id).err = ""
                      THEN "NotImplemented" ELSE "UnknownID"
            /\ NoChange(fimg, fimg')]_vars

\* DeleteObject(id, DelCompact) has failed with NotImplemented on a
\* container that holds the object of that id.
C11_Witness ==
    /\ pc = "idle" /\ op = "delete" /\ arg.flags = DelCompact
    /\ ret = "NotImplemented"
    /\ idx >= 0
    /\ fimg.Fp.tab[SlotOffset(idx)].Used
    /\ fimg.Fp.tab[SlotOffset(idx)].ID = arg.id

\* The container is full: no free slot counted, every slot marked used.
Exhausted(f) ==
    /\ f.Header.Dfree = 0
    /\ \A i \in Slots : f.DescrArr[i].Used

\* C12: AddObject on a container whose capacity is exhausted fails with
\* NoFreeSlot, writes nothing (no payload byte, no record) and leaves the
\* Header and the DescrArr of the FileImage and the header and the table in
\* the file as they were; so does the allocation (createDescriptor) of any
\* input on such a container.
C12_ExhaustedAddFails ==
    [][(pc = "idle" /\ Exhausted(fimg) /\ op' = "add") =>
            /\ ret' = "NoFreeSlot"
            /\ NoChange(fimg, fimg')
            /\ \A input \in env.inputs :
                  /\ createDescriptor(fimg', input).err = "NoFreeSlot"
                  /\ createDescriptor(fimg', input).fimg = fimg']_vars

\* AddObject has failed with NoFreeSlot on a container that holds as many
\* objects as it has slots, in the file as in the FileImage.
C12_Witness ==
    /\ pc = "idle" /\ op = "add" /\ ret = "NoFreeSlot"
    /\ Exhausted(fimg)
    /\ fimg.Fp.hdr.Dfree = 0
    /\ TabUsed(fimg.Fp.tab) = DescrNumEntries

\* The stream of the input is copied whole, without I/O error, and delivers
\* a number of bytes that is not the declared Size.
Mismatched(input) ==
    input.Data = Nil /\ ~input.Fail /\ input.Fp # input.Size

\* The data of the input is written without error.
Written(input) ==
    input.Data # Nil \/ (~input.Fail /\ input.Fp = input.Size)

\* The place in the list of the first input whose data is not written
\* without error, 0 when there is none.
FirstUnwritten(list) ==
    IF \E k \in 1 .. Len(list) : ~Written(list[k])
    THEN CHOOSE k \in 1 .. Len(list) :
            ~Written(list[k]) /\ \A j \in 1 .. (k - 1) : Written(list[j])
    ELSE 0

\* The call has written no record into the header or the descriptor table.
NoFlush(f, g) ==
    /\ g.Fp.hdr = f.Fp.hdr
    /\ g.Fp.tab = f.Fp.tab
    /\ \A i \in 1 .. Len(g.Fp.log) : g.Fp.log[i].off >= DataStartOffset

\* C13: an AddObject that copies a stream delivering fewer or more bytes
\* than the declared Size fails with ShortWrite, leaves the Header (Dfree
\* and Datalen with it) as it was and writes neither the table nor the
\* header; a CreateContainer stops at the first such input with ShortWrite,
\* Dfree and Datalen counting the inputs before it only, the table and the
\* header never written.
C13_ShortWriteLeavesCounters ==
    [][/\ (/\ pc = "idle" /\ op' = "add" /\ Mismatched(arg')
           /\ ret' \notin {"NoFreeSlot", "TableDesync"}) =>
              /\ ret' = "ShortWrite"
              /\ fimg'.Header = fimg.Header
              /\ NoFlush(fimg, fimg')
       /\ (/\ op' = "create" /\ FirstUnwritten(arg') > 0
           /\ Mismatched(arg'[FirstUnwritten(arg')])) =>
              LET k == FirstUnwritten(arg') IN
              /\ ret' = "ShortWrite"
              /\ HdrUsed(fimg'.Header) = k - 1
              /\ fimg'.Header.Datalen =
                    SumStorelen(0 .. (k - 2), fimg'.DescrArr)
              /\ NoFlush(ZeroImage, fimg')]_vars

\* AddObject has failed with ShortWrite on a stream that delivered more
\* bytes than declared: the bytes are in the file, past the data section
\* the header states.
C13_Witness ==
    /\ pc = "idle" /\ op = "add" /\ ret = "ShortWrite"
    /\ arg.Fp > arg.Size
    /\ FileSize(fimg) > fimg.Header.Dataoff + fimg.Header.Datalen
    /\ fimg.Fp.hdr = fimg.Header

\* C14: CreateContainer with an empty Inputlist fails with EmptyInputSet
\* before it opens the file: the file at the path keeps the bytes and the
\* records it had (it is neither created nor truncated) and nothing is
\* written to it.
C14_EmptyInputSetOpensNothing ==
    [][(op' = "create" /\ arg' = <<>>) =>
            /\ ret' = "EmptyInputSet"
            /\ pc' = "start"
            /\ NoChange(fimg, fimg')
            /\ fimg'.Fp.pos = fimg.Fp.pos]_vars

\* CreateContainer has failed with EmptyInputSet on a path that holds the
\* file an earlier CreateContainer left behind: its bytes are still there.
C14_Witness ==
    /\ op = "create" /\ arg = <<>> /\ ret = "EmptyInputSet"
    /\ FileSize(fimg) > DataStartOffset

\* nextAligned(o, a) is the smallest multiple of a that is not less than o.
LeastMultiple(r, o, a) ==
    /\ r >= o
    /\ r % a = 0
    /\ r - o < a
    /\ o % a = 0 => r = o

\* C15, as stated: for every alignment a that is a power of two and every
\* offset o >= 0, nextAligned(o, a) is the smallest multiple of a that is
\* >= o, and is o when o is a multiple of a.
C15_NextAlignedLeastMultiple ==
    op = "nextAligned" => LeastMultiple(idx, arg.offset, arg.align)

\* C15, amended: that holds for every offset o >= 0 up to the last multiple
\* of a an offset can hold (o <= MaxOffset + 1 - a); for an offset past it
\* the sum wraps and nextAligned returns the least offset of the type,
\* which is negative.
C15_NextAlignedWithinRange ==
    op = "nextAligned" =>
        IF arg.offset <= MaxOffset + 1 - arg.align
        THEN LeastMultiple(idx, arg.offset, arg.align)
        ELSE idx = 0 - (MaxOffset + 1)

\* nextAligned has rounded an offset that is no multiple of the page size
\* up to the next page.
C15_Witness ==
    /\ op = "nextAligned"
    /\ arg.align = PageSize
    /\ arg.offset % PageSize # 0
    /\ arg.offset > PageSize
    /\ idx = 2 * PageSize

\* The offset is the first multiple of the page size at or after o.
FirstPageFrom(off, o) ==
    /\ off % PageSize = 0
    /\ off >= o
    /\ off - o < PageSize

\* C16: in every state of a container, the Fileoff of every descriptor
\* marked used, in the DescrArr of the FileImage and in the table in the
\* file, is a multiple of the page size; after CreateContainer the first
\* object is at the first page-aligned offset at or after Dataoff, and each
\* object allocated is at the first one at or after the cursor it found.
C16_FileoffPageAligned ==
    pc = "idle" =>
        /\ \A i \in Slots :
              /\ fimg.DescrArr[i].Used => fimg.DescrArr[i].Fileoff % PageSize = 0
              /\ fimg.Fp.tab[SlotOffset(i)].Used =>
                    fimg.Fp.tab[SlotOffset(i)].Fileoff % PageSize = 0
        /\ op = "create" =>
              FirstPageFrom(fimg.DescrArr[0].Fileoff, fimg.Header.Dataoff)
        /\ \A i \in Slots :
              fimg.DescrArr[i].Used =>
                  LET d == fimg.DescrArr[i] IN
                  FirstPageFrom(d.Fileoff, d.Fileoff + d.Filelen - d.Storelen)

\* A container holds an object stored after alignment padding: the cursor
\* was no multiple of the page size when it was allocated.
C16_Witness ==
    /\ Succeeded
    /\ \E i \in Slots :
          /\ fimg.Fp.tab[SlotOffset(i)].Used
          /\ fimg.Fp.tab[SlotOffset(i)].Fileoff > fimg.Header.Dataoff
          /\ fimg.Fp.tab[SlotOffset(i)].Storelen > fimg.Fp.tab[SlotOffset(i)].Filelen

\* C17: a DeleteObject(id, DelZero) that succeeds changes two fields of the
\* Header and no other: Dfree grows by exactly 1 and Mtime becomes the
\* reading of the clock; Datalen, Dataoff, Descroff, Dtotal (and Ctime and
\* Descrlen) stay as they were, and that Header is the one written to the
\* file.
C17_DeleteChangesDfreeAndMtimeOnly ==
    [][(op' = "delete" /\ arg'.flags = DelZero /\ ret' = "ok") =>
            /\ fimg'.Header = [fimg.Header EXCEPT
                                  !.Dfree = @ + 1,
                                  !.Mtime = fimg'.Header.Mtime]
            /\ fimg'.Header.Dfree = fimg.Header.Dfree + 1
            /\ fimg'.Header.Mtime \in Times(fimg)
            /\ fimg'.Header.Datalen = fimg.Header.Datalen
            /\ fimg'.Fp.hdr = fimg'.Header]_vars

\* DeleteObject(id, DelZero) has succeeded at a later reading of the clock
\* on the last object of the data section: Mtime is past Ctime and Datalen
\* still counts the object.
C17_Witness ==
    /\ Succeeded /\ op = "delete" /\ arg.flags = DelZero
    /\ fimg.Header.Mtime > fimg.Header.Ctime
    /\ fimg.Header.Datalen > 0
    /\ fimg.DescrArr[idx].Fileoff + fimg.DescrArr[idx].Filelen
          = fimg.Header.Dataoff + fimg.Header.Datalen

\* The payload of descriptor d is in the file, whole: Filelen bytes of the
\* object from Fileoff on.
PayloadWritten(f, d) ==
    d.Filelen > 0 =>
        Take(Drop(f.Fp.bytes, d.Fileoff), d.Filelen)
            = <<[n |-> d.Filelen, b |-> d.ID]>>

\* C18: after a CreateContainer or an AddObject that reached the write of
\* the payload, whether that write succeeded or failed, the slot it chose
\* is not marked used in the DescrArr of the FileImage unless its payload
\* has been written whole and without error.
C18_UsedOnlyAfterPayload ==
    (op \in {"create", "add"}
        /\ ret \notin {"EmptyInputSet", "NoFreeSlot", "TableDesync"}) =>
        (fimg.DescrArr[idx].Used =>
            (ret = "ok" /\ PayloadWritten(fimg, fimg.DescrArr[idx])))

\* No two descriptors marked used in table t at the places S share an ID.
UniqueIds(S, t) ==
    \A x, y \in S : (t[x].Used /\ t[y].Used /\ x # y) => t[x].ID # t[y].ID

\* C19: an AddObject that succeeds binds its object to the lowest slot not
\* marked used in the DescrArr it found and gives it the ID slot + 1; a
\* CreateContainer that succeeds with n inputs fills the slots 0 .. n-1 in
\* the order of the inputs and no other; and no two descriptors marked
\* used share an ID, in the DescrArr and in the table in the file.
C19_LowestFreeSlotAndUniqueId ==
    [][/\ (op' = "add" /\ ret' = "ok") =>
              /\ ~fimg.DescrArr[idx'].Used
              /\ \A j \in Slots : j < idx' => fimg.DescrArr[j].Used
              /\ fimg'.DescrArr[idx'].Used
              /\ fimg'.DescrArr[idx'].ID = idx' + 1
              /\ fimg'.DescrArr[idx'].Filelen = arg'.Size
              /\ \A j \in Slots \ {idx'} : fimg'.DescrArr[j] = fimg.DescrArr[j]
       /\ (op' = "create" /\ ret' = "ok") =>
              \A i \in Slots :
                  IF i < Len(arg')
                  THEN /\ fimg'.DescrArr[i].Used
                       /\ fimg'.DescrArr[i].ID = i + 1
                       /\ fimg'.DescrArr[i].Filelen = arg'[i + 1].Size
                       /\ i > 0 => fimg'.DescrArr[i].Fileoff
                                       >= fimg'.DescrArr[i - 1].Fileoff
                  ELSE fimg'.DescrArr[i] = emptyDesc
       /\ UniqueIds(Slots, fimg'.DescrArr)
       /\ UniqueIds(SlotOffsets, fimg'.Fp.tab)]_vars

\* AddObject has bound an object to the second slot of a container created
\* with one object, under the ID 2.
C19_Witness ==
    /\ Succeeded /\ op = "add"
    /\ idx = 1
    /\ fimg.Fp.tab[SlotOffset(0)].Used /\ fimg.Fp.tab[SlotOffset(0)].ID = 1
    /\ fimg.Fp.tab[SlotOffset(1)].Used /\ fimg.Fp.tab[SlotOffset(1)].ID = 2

\* The offset just past the bytes of write e.
WriteEnd(e) == e.off + e.n

\* C20: after every CreateContainer or AddObject that succeeded, Dataoff +
\* Datalen is the offset just past the last payload byte the call wrote,
\* and none of its payload writes reaches past it: the next AddObject, which
\* starts at Dataoff + Datalen, starts after every payload written.
C20_DataEndIsEndOfLastPayload ==
    (Succeeded /\ op \in {"create", "add"}) =>
        LET ws == DataWrites(fimg)
            end == fimg.Header.Dataoff + fimg.Header.Datalen
        IN  /\ Len(ws) > 0
            /\ WriteEnd(ws[Len(ws)]) = end
            /\ \A i \in 1 .. Len(ws) : WriteEnd(ws[i]) <= end

====
